---- MODULE Spec2Model ----
(***************************************************************************)
(* A model of datasift/streamconsumer_http.py: the StreamConsumer_HTTP     *)
(* consumer (the Supervisor: subscription list, hot-swap restart) and its  *)
(* StreamConsumer_HTTP_Thread workers (connect, classify the response,     *)
(* stream, back off, terminate).                                           *)
(*                                                                         *)
(* Two specifications are given over the same variables:                   *)
(*   Spec         the consumer with its workers (start, add/remove hash,   *)
(*                restart_thread, stop) interleaved with the workers;      *)
(*   SpecBackoff  one worker's run() alone, with every response the server *)
(*                can give, to the end of its retry streaks.               *)
(***************************************************************************)
EXTENDS Integers, Sequences, FiniteSets, TLC

\* ------------------------------------------------------------------ bounds
\* Workers the consumer may create in one behaviour (on_start + restarts).
MaxWorkers == 2
\* Hash identifiers are 1..MaxHash.
MaxHash == 2
\* Connection attempts a worker may make since its last 200, under Spec.
SwapAttempts == 1
\* Bytes in one line, or in one chunk's payload, of a response body.
MaxPayload == 2
\* Lines in one newline-delimited response body.
MaxFrames == 2
\* Chunks (the zero-length one apart) in one chunked response body.
MaxChunks == 1
\* Connections one worker makes while its decoder is followed byte by byte.
MaxConns == 2

\* --------------------------------------------------------- program constants
\* First delay of the exponential track (line 297).
ExpFirst == 10
\* Ceiling of the exponential track (line 298).
ExpMax == 320
\* Ceiling of the linear track (line 310).
LinMax == 16

Workers == 1..MaxWorkers
Hashes == 1..MaxHash

\* Status codes the server answers with: success, a client error, the
\* rate-limit code, a server error and one status outside 200/4xx/5xx.
Codes == {200, 404, 420, 503, 301}

\* The codes the endpoint answers with under Spec.
SwapCodes == {200, 503}

\* No streak of failures is longer than this: the linear track gives up at
\* LinMax and the exponential one within seven steps of any delay.
MaxStreak == ExpMax

\* The value of a worker's request before it has built any.
NoReq == {0}

VARIABLES
    \* ---- StreamConsumer_HTTP
    hashes,            \* self._hashes: the list of tracked hashes
    thread,            \* self._thread: the current worker (0: None)
    stop_requested,    \* self.stop_requested
    running,           \* what StreamConsumer._is_running answers
    sup,               \* where the consumer's caller is: idle, or inside restart_thread
                       \* (with the new worker, and whether the old one was connected
                       \* when restart_thread was called)
    call,              \* the last call made on the consumer and what it returned
    net,               \* the set obtained by applying every subscribe/unsubscribe so far
    \* ---- StreamConsumer_HTTP_Thread, one per worker
    pc,                \* position in run()
    connection_delay,  \* run()'s local connection_delay
    sock,              \* self._sock: none, live, stale (its connection failed), closed
    has_connected,     \* self._has_connected
    thread_stop,       \* self._stop_requested
    req,               \* the hashes the worker's latest request was built from
    resp,              \* the outcomes seen since the last 200 (or the start)
    last,              \* the outcome of the latest attempt
    waits,             \* the sleep before each of these attempts
    sink,              \* Event Sink calls since the last 200 (or the start)
    buffer,            \* self._buffer: bytes received and not yet consumed
    chunked,           \* self._chunked
    need,              \* _read_chunk's local length while it reads a chunk's payload
    wire,              \* bytes of the current response the socket has yet to deliver
    body,              \* the response body the server chose for the current connection
    frames,            \* the frames handed to _on_data since the last 200
    \* ---- the caller of run_forever
    driver             \* none (not called), loop (inside run_forever), returned

supVars == <<hashes, thread, stop_requested, sup, call, net, driver>>
wireVars == <<buffer, chunked, need, wire, body, frames>>
workerVars == <<pc, connection_delay, sock, has_connected, thread_stop, req,
                resp, last, waits, sink, wireVars>>
vars == <<hashes, thread, stop_requested, running, sup, call, net, driver,
          pc, connection_delay, sock, has_connected, thread_stop, req,
          resp, last, waits, sink, buffer, chunked, need, wire, body, frames>>

\* ------------------------------------------------------------------ helpers
Range(s) == {s[i] : i \in 1..Len(s)}

\* An Event Sink call.
Ev(e, d, m) == [ev |-> e, d |-> d, msg |-> m]

\* A call on the consumer: the method, its force_restart argument, what
\* add_or_remove_hash returned inside it (TRUE for the other methods) and what
\* the caller got back ("pending" while the call has not returned).
Call(op, r, ok, ret) == [op |-> op, restart |-> r, ok |-> ok, ret |-> ret]

\* An attempt's outcome: a response with a status code, urllib2.URLError, any
\* other exception raised while connecting, or an exception raised while reading.
Outcome(k, c) == [kind |-> k, code |-> c]

\* StreamConsumer._is_running(allow_starting).
is_running(allow_starting) == running

\* StreamConsumer._get_url(): the request names the hashes tracked now.
get_url == Range(hashes)

\* StreamConsumer_HTTP_Thread.__init__(consumer): auto_reconnect keeps its default.
auto_reconnect == TRUE

\* ------------------------------------------------------- bytes and bodies
\* The bytes of a response body: carriage return, newline, the hexadecimal
\* digits and one byte, x, that is none of these.
CR == "CR"
NL == "NL"
Digits == <<"0", "1", "2", "3", "4", "5", "6", "7", "8", "9",
            "a", "b", "c", "d", "e", "f">>

SeqsUpTo(S, lo, hi) == UNION {[1..n -> S] : n \in lo..hi}

RECURSIVE Flat(_)
Flat(ss) == IF ss = <<>> THEN <<>> ELSE Head(ss) \o Flat(Tail(ss))

\* A response body: the ordinal n of the connection that carries it, whether
\* its headers announce chunked transfer encoding, its lines or its chunks'
\* payloads, and whether a zero-length chunk ends it.
Body(n, ch, ps, z) == [n |-> n, chunked |-> ch, payloads |-> ps, zero |-> z]

\* The body of a response whose bytes are not followed.
NoBody == Body(0, FALSE, <<>>, FALSE)

\* Newline-delimited bodies: lines free of newlines, the empty line included.
IdentityBodies(n) ==
    {Body(n, FALSE, ps, FALSE) :
        ps \in SeqsUpTo(SeqsUpTo({"x", CR}, 0, MaxPayload), 0, MaxFrames)}

\* Chunked bodies: non-empty payloads of any bytes, with or without the
\* terminating zero-length chunk.
ChunkedBodies(n) ==
    {Body(n, TRUE, ps, z) :
        ps \in SeqsUpTo(SeqsUpTo({"x", CR, NL}, 1, MaxPayload), 0, MaxChunks),
        z \in BOOLEAN}

\* The hexadecimal length line of a chunk of n bytes (n < 16).
HexOf(n) == <<Digits[n + 1]>>

\* The bytes of a body on the wire: each line followed by a newline, or each
\* chunk as <hex length> CR NL <payload> CR NL, then 0 CR NL CR NL.
Encode(b) ==
    IF b.chunked
    THEN Flat([i \in 1..Len(b.payloads) |->
                 HexOf(Len(b.payloads[i])) \o <<CR, NL>> \o b.payloads[i] \o <<CR, NL>>])
         \o (IF b.zero THEN <<"0", CR, NL, CR, NL>> ELSE <<>>)
    ELSE Flat([i \in 1..Len(b.payloads) |-> b.payloads[i] \o <<NL>>])

\* StripCR leaving the carriage returns in.
StripCR_None(s) == s

\* Line 342: data.replace('\r', '').
StripCR(s) == SelectSeq(s, LAMBDA c : c # CR)

\* Lines 351, 355: self._buffer.find('\n'), counted from 1 (0: not found).
Find(s) ==
    IF \E i \in 1..Len(s) : s[i] = NL
    THEN CHOOSE i \in 1..Len(s) : s[i] = NL /\ \A j \in 1..(i - 1) : s[j] # NL
    ELSE 0

\* Line 369: whether int(length, 16) accepts the line.
IsHex(l) == Len(l) > 0 /\ \A i \in 1..Len(l) : \E d \in 1..16 : Digits[d] = l[i]

\* Line 369: int(length, 16).
RECURSIVE HexVal(_)
HexVal(l) ==
    IF l = <<>> THEN 0
    ELSE HexVal(SubSeq(l, 1, Len(l) - 1)) * 16
         + (CHOOSE d \in 0..15 : Digits[d + 1] = l[Len(l)])

\* Line 351: _raw_read_chunk(length) has to read more before it can return.
Short(buf, length) ==
    \/ length = 0 /\ Find(buf) = 0
    \/ length > 0 /\ Len(buf) < length

\* Lines 354-358: what _raw_read_chunk(length) returns from the buffer.
Retval(buf, length) ==
    IF length = 0 THEN SubSeq(buf, 1, Find(buf) - 1) ELSE SubSeq(buf, 1, length)

\* Line 360: the buffer it leaves: one byte after the returned ones is dropped.
Rest(buf, length) ==
    IF length = 0 THEN SubSeq(buf, Find(buf) + 1, Len(buf))
    ELSE SubSeq(buf, length + 2, Len(buf))

\* Classify with every status from 400 up taken for a client error.
Classify_5xxFatal(code) ==
    IF code = 200 THEN "ok"
    ELSE IF code >= 400 /\ code # 420 THEN "client"
    ELSE "exponential"

\* The branch run() takes for a status code (lines 264, 272, 293).
Classify(code) ==
    IF code = 200 THEN "ok"
    ELSE IF code >= 400 /\ code < 500 /\ code # 420 THEN "client"
    ELSE "exponential"

\* ExpBackoff doubling once more at the ceiling (<= for <).
ExpBackoff_Le(d) ==
    IF d = 0 THEN [retry |-> TRUE, delay |-> ExpFirst]
    ELSE IF d <= ExpMax THEN [retry |-> TRUE, delay |-> d * 2]
    ELSE [retry |-> FALSE, delay |-> d]

\* The ExponentialBackoffError handler's decision for the delay d (lines 296-304).
ExpBackoff(d) ==
    IF d = 0 THEN [retry |-> TRUE, delay |-> ExpFirst]
    ELSE IF d < ExpMax THEN [retry |-> TRUE, delay |-> d * 2]
    ELSE [retry |-> FALSE, delay |-> d]

\* LinBackoff retrying once more at the ceiling (<= for <).
LinBackoff_Le(d) ==
    IF d <= LinMax THEN [retry |-> TRUE, delay |-> d + 1]
    ELSE [retry |-> FALSE, delay |-> d]

\* The generic Exception handler's decision for the delay d (lines 310-319).
LinBackoff(d) ==
    IF d < LinMax THEN [retry |-> TRUE, delay |-> d + 1]
    ELSE [retry |-> FALSE, delay |-> d]

\* ------------------------------------------------------- the worker: run()
\* The run loop's condition (line 207) for a worker that has made n attempts.
LoopCond(w) ==
    /\ (Len(waits[w]) = 0 /\ ~has_connected[w]) \/ auto_reconnect
    /\ is_running(TRUE)
    /\ ~thread_stop[w]

\* Line 207-210: test the loop condition; when it holds, sleep connection_delay.
\* The model lets a worker make at most limit attempts since its last 200.
LoopTop(w, limit) ==
    /\ pc[w] = "top"
    /\ IF LoopCond(w)
       THEN /\ Len(waits[w]) < limit
            /\ pc' = [pc EXCEPT ![w] = "connect"]
            /\ waits' = [waits EXCEPT ![w] = Append(@, connection_delay[w])]
       ELSE /\ pc' = [pc EXCEPT ![w] = "exit"]
            /\ UNCHANGED waits
    /\ UNCHANGED <<connection_delay, sock, has_connected, thread_stop, req,
                   resp, last, sink>>
    /\ UNCHANGED <<supVars, running, wireVars>>

\* The ExponentialBackoffError handler (lines 295-307) after outcome o.
ExpHandler(w, o) ==
    LET b == ExpBackoff(connection_delay[w]) IN
    /\ resp' = [resp EXCEPT ![w] = @ \cup {o}]
    /\ last' = [last EXCEPT ![w] = o]
    /\ connection_delay' = [connection_delay EXCEPT ![w] = b.delay]
    /\ IF b.retry
       THEN /\ sink' = [sink EXCEPT ![w] = Append(@, Ev("warning", b.delay, "exponential"))]
            /\ pc' = [pc EXCEPT ![w] = "top"]
       ELSE /\ sink' = [sink EXCEPT ![w] = Append(@, Ev("error", 0, "no more retries"))]
            /\ pc' = [pc EXCEPT ![w] = "exit"]

\* The generic Exception handler (lines 309-319) after outcome o.
LinHandler(w, o) ==
    LET b == LinBackoff(connection_delay[w]) IN
    /\ resp' = [resp EXCEPT ![w] = @ \cup {o}]
    /\ last' = [last EXCEPT ![w] = o]
    /\ connection_delay' = [connection_delay EXCEPT ![w] = b.delay]
    /\ IF b.retry
       THEN /\ sink' = [sink EXCEPT ![w] = Append(@, Ev("warning", b.delay, "linear"))]
            /\ pc' = [pc EXCEPT ![w] = "top"]
       ELSE /\ sink' = [sink EXCEPT ![w] = Append(@, Ev("error", 0, "no more retries"))]
            /\ pc' = [pc EXCEPT ![w] = "exit"]

\* ConnectURLError handled like any other exception: a warning and a retry.
ConnectURLError_Retry(w) ==
    /\ pc[w] = "connect"
    /\ req' = [req EXCEPT ![w] = get_url]
    /\ LinHandler(w, Outcome("URLError", 0))
    /\ UNCHANGED <<sock, has_connected, thread_stop, waits>>
    /\ UNCHANGED <<supVars, running, wireVars>>

\* Lines 218-224: urlopen raises URLError: one error, leave the loop.
ConnectURLError(w) ==
    /\ pc[w] = "connect"
    /\ req' = [req EXCEPT ![w] = get_url]
    /\ resp' = [resp EXCEPT ![w] = @ \cup {Outcome("URLError", 0)}]
    /\ last' = [last EXCEPT ![w] = Outcome("URLError", 0)]
    /\ sink' = [sink EXCEPT ![w] = Append(@, Ev("error", 0, "Connection failed"))]
    /\ pc' = [pc EXCEPT ![w] = "exit"]
    /\ UNCHANGED <<connection_delay, sock, has_connected, thread_stop, waits>>
    /\ UNCHANGED <<supVars, running, wireVars>>

\* Lines 211-219, 309: the request raises anything else (a timeout reading the
\* status line, say): the generic handler.
ConnectException(w) ==
    /\ pc[w] = "connect"
    /\ req' = [req EXCEPT ![w] = get_url]
    /\ LinHandler(w, Outcome("exception", 0))
    /\ UNCHANGED <<sock, has_connected, thread_stop, waits>>
    /\ UNCHANGED <<supVars, running, wireVars>>

\* Lines 235-238, 253-271: a 200 whose body is one of B: note chunked transfer
\* encoding, take the raw socket, reset the delay, report connect, set
\* _has_connected, enter _read_stream. The buffer is left as it is.
Connect200(w, B) ==
    /\ pc[w] = "connect"
    /\ Classify(200) = "ok"
    /\ \E b \in B :
          /\ chunked' = [chunked EXCEPT ![w] = @ \/ b.chunked]
          /\ body' = [body EXCEPT ![w] = b]
          /\ wire' = [wire EXCEPT ![w] = Encode(b)]
    /\ frames' = [frames EXCEPT ![w] = <<>>]
    /\ req' = [req EXCEPT ![w] = get_url]
    /\ sock' = [sock EXCEPT ![w] = "live"]
    /\ connection_delay' = [connection_delay EXCEPT ![w] = 0]
    /\ sink' = [sink EXCEPT ![w] = <<Ev("connect", 0, "")>>]
    /\ resp' = [resp EXCEPT ![w] = {}]
    /\ last' = [last EXCEPT ![w] = Outcome("response", 200)]
    /\ waits' = [waits EXCEPT ![w] = <<>>]
    /\ has_connected' = [has_connected EXCEPT ![w] = TRUE]
    /\ pc' = [pc EXCEPT ![w] = "read"]
    /\ UNCHANGED <<thread_stop, buffer, need>>
    /\ UNCHANGED <<supVars, running>>

\* Lines 272-277: a 4xx other than 420: the worker goes on to read the error
\* payload with _read_chunk.
Connect4xx(w, C) ==
    /\ pc[w] = "connect"
    /\ \E c \in C :
          /\ Classify(c) = "client"
          /\ resp' = [resp EXCEPT ![w] = @ \cup {Outcome("response", c)}]
          /\ last' = [last EXCEPT ![w] = Outcome("response", c)]
    /\ req' = [req EXCEPT ![w] = get_url]
    /\ pc' = [pc EXCEPT ![w] = "payload"]
    /\ UNCHANGED <<connection_delay, sock, has_connected, thread_stop, waits, sink>>
    /\ UNCHANGED <<supVars, running, wireVars>>

\* Lines 293-307: any other status: the exponential handler.
ConnectOther(w, C) ==
    /\ pc[w] = "connect"
    /\ req' = [req EXCEPT ![w] = get_url]
    /\ \E c \in C :
          /\ Classify(c) = "exponential"
          /\ ExpHandler(w, Outcome("response", c))
    /\ UNCHANGED <<sock, has_connected, thread_stop, waits>>
    /\ UNCHANGED <<supVars, running, wireVars>>

\* Whether _read_chunk can read the socket at all: the raw socket is taken only
\* on a 200 (lines 253-261), so a worker that never got one holds None, and
\* select.select([None], ...) in _raw_read (line 333) raises TypeError.
CanSelect(s) == s # "none"

\* Lines 275-277 -> 329-335 -> 309: reading the error payload raises (always,
\* when the worker holds no socket): the generic handler takes it as a
\* linear-backoff failure. The attempt's outcome is already in resp.
PayloadRaises(w) ==
    /\ pc[w] = "payload"
    /\ LET b == LinBackoff(connection_delay[w]) IN
       /\ connection_delay' = [connection_delay EXCEPT ![w] = b.delay]
       /\ IF b.retry
          THEN /\ sink' = [sink EXCEPT ![w] = Append(@, Ev("warning", b.delay, "linear"))]
               /\ pc' = [pc EXCEPT ![w] = "top"]
          ELSE /\ sink' = [sink EXCEPT ![w] = Append(@, Ev("error", 0, "no more retries"))]
               /\ pc' = [pc EXCEPT ![w] = "exit"]
    /\ UNCHANGED <<sock, has_connected, thread_stop, req, resp, last, waits>>
    /\ UNCHANGED <<supVars, running, wireVars>>

\* Lines 277-292: _read_chunk returns a frame, which can only come from the
\* socket of an earlier connection of this worker: one error, leave the loop.
PayloadRead(w) ==
    /\ pc[w] = "payload"
    /\ CanSelect(sock[w])
    /\ \E m \in {"message", "Hash not found"} :
          sink' = [sink EXCEPT ![w] = Append(@, Ev("error", 0, m))]
    /\ pc' = [pc EXCEPT ![w] = "exit"]
    /\ UNCHANGED <<connection_delay, sock, has_connected, thread_stop, req,
                   resp, last, waits>>
    /\ UNCHANGED <<supVars, running, wireVars>>

\* Line 378: _read_stream's loop condition; when it fails the worker returns
\* to the run loop's condition.
ReadTop(w) ==
    /\ pc[w] = "read"
    /\ IF is_running(FALSE) /\ ~thread_stop[w]
       THEN pc' = [pc EXCEPT ![w] = "inread"]
       ELSE pc' = [pc EXCEPT ![w] = "top"]
    /\ UNCHANGED <<connection_delay, sock, has_connected, thread_stop, req,
                   resp, last, waits, sink>>
    /\ UNCHANGED <<supVars, running, wireVars>>

\* Line 380: _read_chunk returns a frame, handed to _on_data.
ReadFrame(w) ==
    /\ pc[w] = "inread"
    /\ pc' = [pc EXCEPT ![w] = "read"]
    /\ UNCHANGED <<connection_delay, sock, has_connected, thread_stop, req,
                   resp, last, waits, sink>>
    /\ UNCHANGED <<supVars, running, wireVars>>

\* Lines 333-340, 351-352: select times out after its second, or recv returns
\* no bytes: _raw_read returns and the loop at line 351 calls it again. Neither
\* _stop_requested nor _is_running is read on this path.
ReadIdle(w) ==
    /\ pc[w] \in {"inread", "inbody"}
    /\ Short(buffer[w], need[w])
    /\ UNCHANGED vars

\* Lines 333-342, 351-352: the socket has bytes: recv returns some of them, as
\* many as the network delivers at once, and they join the buffer without
\* their carriage returns.
RawRead(w) ==
    /\ pc[w] \in {"inread", "inbody"}
    /\ Short(buffer[w], need[w])
    /\ sock[w] = "live"
    /\ \E k \in 1..Len(wire[w]) :
          /\ buffer' = [buffer EXCEPT ![w] = @ \o StripCR(SubSeq(wire[w], 1, k))]
          /\ wire' = [wire EXCEPT ![w] = SubSeq(@, k + 1, Len(@))]
    /\ UNCHANGED <<chunked, need, body, frames>>
    /\ UNCHANGED <<pc, connection_delay, sock, has_connected, thread_stop, req,
                   resp, last, waits, sink>>
    /\ UNCHANGED <<supVars, running>>

\* Lines 354-361, 365-366: _raw_read_chunk() returns an empty line and
\* _read_chunk asks for the next one.
SkipEmptyLine(w) ==
    /\ pc[w] = "inread"
    /\ ~Short(buffer[w], 0)
    /\ Retval(buffer[w], 0) = <<>>
    /\ buffer' = [buffer EXCEPT ![w] = Rest(@, 0)]
    /\ UNCHANGED <<chunked, need, wire, body, frames>>
    /\ UNCHANGED <<pc, connection_delay, sock, has_connected, thread_stop, req,
                   resp, last, waits, sink>>
    /\ UNCHANGED <<supVars, running>>

\* Lines 354-361, 367-368, 380: the response is not chunked: the line is the
\* frame, handed to _on_data.
TakeLine(w) ==
    /\ pc[w] = "inread"
    /\ ~Short(buffer[w], 0)
    /\ Retval(buffer[w], 0) # <<>>
    /\ ~chunked[w]
    /\ frames' = [frames EXCEPT ![w] = Append(@, Retval(buffer[w], 0))]
    /\ buffer' = [buffer EXCEPT ![w] = Rest(@, 0)]
    /\ pc' = [pc EXCEPT ![w] = "read"]
    /\ UNCHANGED <<chunked, need, wire, body>>
    /\ UNCHANGED <<connection_delay, sock, has_connected, thread_stop, req,
                   resp, last, waits, sink>>
    /\ UNCHANGED <<supVars, running>>

\* Lines 354-361, 369-370: the response is chunked: the line is read as a
\* hexadecimal length and _raw_read_chunk(length) is entered.
TakeLength(w) ==
    /\ pc[w] = "inread"
    /\ ~Short(buffer[w], 0)
    /\ Retval(buffer[w], 0) # <<>>
    /\ chunked[w]
    /\ IsHex(Retval(buffer[w], 0))
    /\ need' = [need EXCEPT ![w] = HexVal(Retval(buffer[w], 0))]
    /\ buffer' = [buffer EXCEPT ![w] = Rest(@, 0)]
    /\ pc' = [pc EXCEPT ![w] = "inbody"]
    /\ UNCHANGED <<chunked, wire, body, frames>>
    /\ UNCHANGED <<connection_delay, sock, has_connected, thread_stop, req,
                   resp, last, waits, sink>>
    /\ UNCHANGED <<supVars, running>>

\* Lines 369 -> 309: the line is no hexadecimal number: int() raises
\* ValueError, which the generic handler takes for a connection failure.
BadLength(w) ==
    /\ pc[w] = "inread"
    /\ ~Short(buffer[w], 0)
    /\ Retval(buffer[w], 0) # <<>>
    /\ chunked[w]
    /\ ~IsHex(Retval(buffer[w], 0))
    /\ buffer' = [buffer EXCEPT ![w] = Rest(@, 0)]
    /\ LinHandler(w, Outcome("decode", 0))
    /\ UNCHANGED <<chunked, need, wire, body, frames>>
    /\ UNCHANGED <<sock, has_connected, thread_stop, req, waits>>
    /\ UNCHANGED <<supVars, running>>

\* Lines 354-361, 370-371, 380: _raw_read_chunk(length) returns the payload,
\* handed to _on_data. With a length of 0 it is _raw_read_chunk(0) that was
\* called, which returns up to the next newline.
TakeBody(w) ==
    /\ pc[w] = "inbody"
    /\ ~Short(buffer[w], need[w])
    /\ frames' = [frames EXCEPT ![w] = Append(@, Retval(buffer[w], need[w]))]
    /\ buffer' = [buffer EXCEPT ![w] = Rest(@, need[w])]
    /\ need' = [need EXCEPT ![w] = 0]
    /\ pc' = [pc EXCEPT ![w] = "read"]
    /\ UNCHANGED <<chunked, wire, body>>
    /\ UNCHANGED <<connection_delay, sock, has_connected, thread_stop, req,
                   resp, last, waits, sink>>
    /\ UNCHANGED <<supVars, running>>

\* Lines 333-344 -> 309: the socket fails while reading: the generic handler.
\* The worker keeps the failed socket in _sock.
ReadFail(w) ==
    /\ pc[w] \in {"inread", "inbody"}
    /\ sock' = [sock EXCEPT ![w] = "stale"]
    /\ LinHandler(w, Outcome("read", 0))
    /\ wire' = [wire EXCEPT ![w] = <<>>]
    /\ need' = [need EXCEPT ![w] = 0]
    /\ UNCHANGED <<has_connected, thread_stop, req, waits>>
    /\ UNCHANGED <<buffer, chunked, body, frames>>
    /\ UNCHANGED <<supVars, running>>

\* Terminate reporting disconnect whatever _stop_requested says.
Terminate_Always(w) ==
    /\ pc[w] = "exit"
    /\ sock' = [sock EXCEPT ![w] = IF @ = "none" THEN "none" ELSE "closed"]
    /\ sink' = [sink EXCEPT ![w] = Append(@, Ev("disconnect", 0, ""))]
    /\ pc' = [pc EXCEPT ![w] = "done"]
    /\ UNCHANGED <<connection_delay, has_connected, thread_stop, req, resp, last, waits>>
    /\ UNCHANGED <<supVars, running, wireVars>>

\* Lines 321-327: close the socket; report disconnect unless asked to stop.
Terminate(w) ==
    /\ pc[w] = "exit"
    /\ sock' = [sock EXCEPT ![w] = IF @ = "none" THEN "none" ELSE "closed"]
    /\ sink' = [sink EXCEPT ![w] =
                  IF thread_stop[w] THEN @ ELSE Append(@, Ev("disconnect", 0, ""))]
    /\ pc' = [pc EXCEPT ![w] = "done"]
    /\ UNCHANGED <<connection_delay, has_connected, thread_stop, req, resp, last, waits>>
    /\ UNCHANGED <<supVars, running, wireVars>>

\* StreamConsumer's running state is cleared (by the base class, outside this file).
Halt ==
    /\ running
    /\ running' = FALSE
    /\ UNCHANGED <<supVars, workerVars>>

\* A step of worker w's run() against a server that answers with the codes C.
WorkerStep(w, C) ==
    \/ LoopTop(w, MaxStreak)
    \/ ConnectURLError(w)
    \/ ConnectException(w)
    \/ Connect200(w, {NoBody})
    \/ Connect4xx(w, C)
    \/ ConnectOther(w, C)
    \/ PayloadRaises(w)
    \/ PayloadRead(w)
    \/ ReadTop(w)
    \/ ReadFrame(w)
    \/ ReadFail(w)
    \/ Terminate(w)

\* A step of worker w's run() under Spec: the endpoint answers 200 or 503 or is
\* unreachable, and an established connection may fail.
SwapStep(w) ==
    \/ LoopTop(w, SwapAttempts)
    \/ ConnectURLError(w)
    \/ Connect200(w, {NoBody})
    \/ ConnectOther(w, SwapCodes)
    \/ ReadTop(w)
    \/ ReadFrame(w)
    \/ ReadFail(w)
    \/ Terminate(w)

\* A step of worker w's run() against an endpoint that answers 200 or is
\* unreachable, with no bound on the attempts.
LiveStep(w) ==
    \/ LoopTop(w, MaxStreak)
    \/ ConnectURLError(w)
    \/ Connect200(w, {NoBody})
    \/ ReadTop(w)
    \/ ReadFrame(w)
    \/ ReadIdle(w)
    \/ ReadFail(w)
    \/ Terminate(w)

\* The bodies a server may send on connection n, in either mode.
AnyBodies(n) == IdentityBodies(n) \cup ChunkedBodies(n)

\* A step of worker w's run() with its decoder followed byte by byte: every
\* response is a 200 whose body is one of AnyBodies(n), n the connection's
\* ordinal.
DecodeStep(w) ==
    \/ LoopTop(w, MaxStreak)
    \/ body[w].n < MaxConns /\ Connect200(w, AnyBodies(body[w].n + 1))
    \/ ReadTop(w)
    \/ RawRead(w)
    \/ ReadIdle(w)
    \/ SkipEmptyLine(w)
    \/ TakeLine(w)
    \/ TakeLength(w)
    \/ BadLength(w)
    \/ TakeBody(w)
    \/ body[w].n < MaxConns /\ ReadFail(w)

\* A step of worker w's run() over one connection whose response is a 200
\* with a newline-delimited body, the decoder followed byte by byte.
IdentityStep(w) ==
    \/ LoopTop(w, MaxStreak)
    \/ body[w].n = 0 /\ Connect200(w, IdentityBodies(1))
    \/ ReadTop(w)
    \/ RawRead(w)
    \/ ReadIdle(w)
    \/ SkipEmptyLine(w)
    \/ TakeLine(w)

\* ------------------------------------------- the consumer: StreamConsumer_HTTP
\* Worker w holds a live 200 stream and is in _read_stream.
Connected(w) == sock[w] = "live" /\ pc[w] \in {"read", "inread"}

\* The worker a new StreamConsumer_HTTP_Thread(self) would be (0: none left).
FreeId == IF \E w \in Workers : pc[w] = "new"
          THEN CHOOSE w \in Workers : pc[w] = "new" /\ \A v \in Workers : pc[v] = "new" => w <= v
          ELSE 0

\* list.remove(h): the list without its first h.
RemoveHash(s, h) ==
    LET i == CHOOSE k \in 1..Len(s) : s[k] = h /\ \A j \in 1..(k - 1) : s[j] # h
    IN  SubSeq(s, 1, i - 1) \o SubSeq(s, i + 1, Len(s))

\* list.append(h).
AddHash(s, h) == Append(s, h)

\* Lines 111-116: the calls add_or_remove_hash refuses.
Rejects(s, h, is_add) ==
    \/ h \in Range(s) /\ is_add
    \/ h \notin Range(s) /\ ~is_add

\* WantsRestart ignoring the caller's force_restart.
WantsRestart_Always(force_restart) == TRUE

\* Lines 126-127: whether add_or_remove_hash goes on to restart_thread.
WantsRestart(force_restart) == force_restart

\* Lines 90-94, 113-128: what the caller gets back: add_or_remove_hash returns
\* its result, add_hash and remove_hash return nothing.
Returned(op, result) ==
    IF op = "add_or_remove_hash" THEN (IF result THEN "True" ELSE "False") ELSE "None"

\* MayRetire satisfied by a new worker that has merely been started.
MayRetire_Started(n) == pc[n] # "new"

\* Line 145: restart_thread's wait ends once the new worker has connected.
MayRetire(n) == has_connected[n]

\* Lines 67-70 (and StreamConsumer.consume, which makes the consumer running):
\* create and start the first worker.
on_start ==
    /\ sup.at = "idle"
    /\ thread = 0
    /\ FreeId # 0
    /\ stop_requested' = FALSE
    /\ running' = TRUE
    /\ thread' = FreeId
    /\ pc' = [pc EXCEPT ![FreeId] = "top"]
    /\ call' = Call("on_start", FALSE, TRUE, "None")
    /\ UNCHANGED <<hashes, sup, net, driver>>
    /\ UNCHANGED <<connection_delay, sock, has_connected, thread_stop, req,
                   resp, last, waits, sink, wireVars>>

\* RestartBegin stopping the old worker before the new one has connected.
RestartBegin_StopFirst(n) ==
    /\ pc' = [pc EXCEPT ![n] = "top"]
    /\ thread_stop' = [thread_stop EXCEPT ![thread] = TRUE]
    /\ sup' = [at |-> "restart", new |-> n, covered |-> Connected(thread)]
    /\ UNCHANGED <<connection_delay, sock, has_connected, req, resp, last,
                   waits, sink, wireVars>>

\* Lines 141-142: restart_thread creates and starts the new worker, then waits.
RestartBegin(n) ==
    /\ pc' = [pc EXCEPT ![n] = "top"]
    /\ sup' = [at |-> "restart", new |-> n, covered |-> Connected(thread)]
    /\ UNCHANGED <<connection_delay, sock, has_connected, thread_stop, req,
                   resp, last, waits, sink, wireVars>>

\* Lines 90-128: add_hash, remove_hash, add_or_remove_hash. A refused call
\* returns at once; an accepted one changes the list and, when asked to,
\* enters restart_thread.
add_or_remove_hash(op, h, is_add, force_restart) ==
    /\ sup.at = "idle"
    /\ thread # 0
    /\ net' = IF is_add THEN net \cup {h} ELSE net \ {h}
    /\ IF Rejects(hashes, h, is_add)
       THEN /\ call' = Call(op, force_restart, FALSE, Returned(op, FALSE))
            /\ UNCHANGED <<hashes, sup, workerVars>>
       ELSE /\ hashes' = IF is_add THEN AddHash(hashes, h) ELSE RemoveHash(hashes, h)
            /\ IF WantsRestart(force_restart)
               THEN /\ FreeId # 0
                    /\ RestartBegin(FreeId)
                    /\ call' = Call(op, force_restart, TRUE, "pending")
               ELSE /\ call' = Call(op, force_restart, TRUE, Returned(op, TRUE))
                    /\ UNCHANGED <<sup, workerVars>>
    /\ UNCHANGED <<thread, stop_requested, running, driver>>

\* Lines 134-146: restart_thread called directly.
restart_thread ==
    /\ sup.at = "idle"
    /\ thread # 0
    /\ FreeId # 0
    /\ RestartBegin(FreeId)
    /\ call' = Call("restart_thread", TRUE, TRUE, "pending")
    /\ UNCHANGED <<hashes, thread, stop_requested, running, net, driver>>

\* restart_thread without line 148: the new worker is made current and the old
\* one is never told to stop.
RestartFinish_NoStop ==
    /\ sup.at = "restart"
    /\ MayRetire(sup.new)
    /\ thread' = sup.new
    /\ sup' = [at |-> "idle", new |-> 0, covered |-> FALSE]
    /\ call' = [call EXCEPT !.ret = IF call.op = "restart_thread" THEN "None"
                                    ELSE Returned(call.op, TRUE)]
    /\ UNCHANGED <<hashes, stop_requested, running, net, driver>>
    /\ UNCHANGED workerVars

\* Lines 145-150: the wait is over: stop the old worker, make the new one
\* current, return (through add_or_remove_hash when it made the call).
RestartFinish ==
    /\ sup.at = "restart"
    /\ MayRetire(sup.new)
    /\ thread_stop' = [thread_stop EXCEPT ![thread] = TRUE]
    /\ thread' = sup.new
    /\ sup' = [at |-> "idle", new |-> 0, covered |-> FALSE]
    /\ call' = [call EXCEPT !.ret = IF call.op = "restart_thread" THEN "None"
                                    ELSE Returned(call.op, TRUE)]
    /\ UNCHANGED <<hashes, stop_requested, running, net, driver>>
    /\ UNCHANGED <<pc, connection_delay, sock, has_connected, req, resp, last,
                   waits, sink, wireVars>>

\* Lines 130-132: stop() sets the consumer's own flag, nothing else.
stop ==
    /\ sup.at = "idle"
    /\ thread # 0
    /\ ~stop_requested
    /\ stop_requested' = TRUE
    /\ UNCHANGED <<hashes, thread, running, sup, call, net, driver, workerVars>>

\* Line 152: the caller enters run_forever.
run_forever ==
    /\ driver = "none"
    /\ thread # 0
    /\ driver' = "loop"
    /\ UNCHANGED <<hashes, thread, stop_requested, running, sup, call, net, workerVars>>

\* Lines 157-159, 72-88: run_forever returns once stop was requested or the
\* current worker is no longer alive; until then each turn joins the worker
\* for a second and changes nothing.
run_forever_return ==
    /\ driver = "loop"
    /\ stop_requested \/ thread = 0 \/ pc[thread] = "done"
    /\ driver' = "returned"
    /\ UNCHANGED <<hashes, thread, stop_requested, running, sup, call, net, workerVars>>

\* The state after StreamConsumer_HTTP.__init__.
Init ==
    /\ hashes = <<1>>
    /\ thread = 0
    /\ stop_requested = FALSE
    /\ running = FALSE
    /\ sup = [at |-> "idle", new |-> 0, covered |-> FALSE]
    /\ call = Call("__init__", FALSE, TRUE, "None")
    /\ net = {1}
    /\ pc = [w \in Workers |-> "new"]
    /\ connection_delay = [w \in Workers |-> 0]
    /\ sock = [w \in Workers |-> "none"]
    /\ has_connected = [w \in Workers |-> FALSE]
    /\ thread_stop = [w \in Workers |-> FALSE]
    /\ req = [w \in Workers |-> NoReq]
    /\ resp = [w \in Workers |-> {}]
    /\ last = [w \in Workers |-> Outcome("none", 0)]
    /\ waits = [w \in Workers |-> <<>>]
    /\ sink = [w \in Workers |-> <<>>]
    /\ buffer = [w \in Workers |-> <<>>]
    /\ chunked = [w \in Workers |-> FALSE]
    /\ need = [w \in Workers |-> 0]
    /\ wire = [w \in Workers |-> <<>>]
    /\ body = [w \in Workers |-> NoBody]
    /\ frames = [w \in Workers |-> <<>>]
    /\ driver = "none"

Next ==
    \/ on_start
    \/ \E h \in Hashes, force_restart \in BOOLEAN :
          \/ add_or_remove_hash("add_hash", h, TRUE, force_restart)
          \/ add_or_remove_hash("remove_hash", h, FALSE, force_restart)
    \/ restart_thread
    \/ RestartFinish
    \/ stop
    \/ Halt
    \/ \E w \in Workers : SwapStep(w)

Spec == Init /\ [][Next]_vars

\* ------------------------------------------- the consumer under fair scheduling
\* The consumer keeps running: only stop() and restart_thread act on the workers.
NextLive ==
    \/ on_start
    \/ restart_thread
    \/ RestartFinish
    \/ stop
    \/ run_forever
    \/ run_forever_return
    \/ \E w \in Workers : LiveStep(w)

\* What the threads' scheduling guarantees: a thread that can take its next
\* step in the code takes it (the loop tests, the end of run(), the polls of
\* restart_thread and run_forever), and urlopen, with its 30 s timeout, ends
\* one way or the other. Nothing makes the server send a frame, a socket fail,
\* or a caller call.
Fairness ==
    /\ WF_vars(RestartFinish)
    /\ WF_vars(run_forever_return)
    /\ \A w \in Workers :
          /\ WF_vars(LoopTop(w, MaxStreak))
          /\ WF_vars(ConnectURLError(w) \/ Connect200(w, {NoBody}))
          /\ WF_vars(ReadTop(w))
          /\ WF_vars(Terminate(w))

SpecLive == Init /\ [][NextLive]_vars /\ Fairness

\* ------------------------------------------------ one worker's run() alone
\* The state after on_start: worker 1 created and started, nothing else.
InitBackoff ==
    /\ hashes = <<1>>
    /\ thread = 1
    /\ stop_requested = FALSE
    /\ running = TRUE
    /\ sup = [at |-> "idle", new |-> 0, covered |-> FALSE]
    /\ call = Call("on_start", FALSE, TRUE, "None")
    /\ net = {1}
    /\ pc = [w \in Workers |-> IF w = 1 THEN "top" ELSE "new"]
    /\ connection_delay = [w \in Workers |-> 0]
    /\ sock = [w \in Workers |-> "none"]
    /\ has_connected = [w \in Workers |-> FALSE]
    /\ thread_stop = [w \in Workers |-> FALSE]
    /\ req = [w \in Workers |-> NoReq]
    /\ resp = [w \in Workers |-> {}]
    /\ last = [w \in Workers |-> Outcome("none", 0)]
    /\ waits = [w \in Workers |-> <<>>]
    /\ sink = [w \in Workers |-> <<>>]
    /\ buffer = [w \in Workers |-> <<>>]
    /\ chunked = [w \in Workers |-> FALSE]
    /\ need = [w \in Workers |-> 0]
    /\ wire = [w \in Workers |-> <<>>]
    /\ body = [w \in Workers |-> NoBody]
    /\ frames = [w \in Workers |-> <<>>]
    /\ driver = "none"

NextBackoff == WorkerStep(1, Codes) \/ Halt

SpecBackoff == InitBackoff /\ [][NextBackoff]_vars

\* --------------------------------------------- one worker's decoder, byte by byte
NextDecode == DecodeStep(1)

SpecDecode == InitBackoff /\ [][NextDecode]_vars

NextIdentity == IdentityStep(1)

SpecIdentity == InitBackoff /\ [][NextIdentity]_vars

\* ================================================================ claims
SubscribeOps == {"add_hash", "remove_hash"}

\* ---------------------------------------------------------------------- C1
\* C1: the old worker's _stop_requested is set only once the replacement's
\* _has_connected is true: a stopped worker's successor has connected, no
\* worker is stopped while restart_thread still waits, and the consumer's
\* current worker is a replacement only if that replacement has connected.
C1_ConnectBeforeStop ==
    /\ \A w \in Workers :
          thread_stop[w] => (w + 1 \in Workers /\ has_connected[w + 1] /\ thread > w)
    /\ sup.at = "restart" =>
          (~thread_stop[thread] /\ thread # sup.new /\ thread # 0)
    /\ thread > 1 => (has_connected[thread] /\ thread_stop[thread - 1])

\* A restart has completed: worker 1 told to stop, worker 2 current.
C1_Witness == thread_stop[1] /\ thread = 2 /\ has_connected[2] /\ sup.at = "idle"

C3_NetAfterAnyRestartCall ==
    (sup.at = "idle" /\ call.op \in SubscribeOps /\ call.restart
        /\ Connected(thread))
    => req[thread] = net

\* C3 as amended: the same, for a call with restart=true that add_or_remove_hash
\* accepted (it changed the list and went through restart_thread).
C3_NetAfterRestart ==
    (sup.at = "idle" /\ call.op \in SubscribeOps /\ call.restart /\ call.ok)
    => req[thread] = net

\* An accepted restart=true call has returned after the list went from {1} to {2}.
C3_Witness ==
    /\ sup.at = "idle" /\ call.op \in SubscribeOps /\ call.restart /\ call.ok
    /\ net = {2}
    /\ thread = 2

\* ---------------------------------------------------------------------- C4
\* The last call on the consumer was an accepted one made with restart=false.
StagedLast ==
    sup.at = "idle" /\ call.op \in SubscribeOps /\ call.ok /\ ~call.restart

\* A step of an accepted subscribe/unsubscribe made with restart=false.
StagingStep == hashes' # hashes /\ ~call'.restart

DupFree(s) == \A i, j \in 1..Len(s) : s[i] = s[j] => i = j

\* A step of a refused subscribe/unsubscribe.
RefusedStep == call' # call /\ call'.op \in SubscribeOps /\ ~call'.ok

\* What holds of the refused calls: the list, the workers and the consumer's
\* current worker are untouched, and the list never holds a hash twice.
C5_RefusedIsNoOp ==
    /\ [][RefusedStep => (hashes' = hashes /\ UNCHANGED <<workerVars, thread, sup>>)]_vars
    /\ [](DupFree(hashes) /\ net = Range(hashes))

\* C5: subscribing a tracked hash or unsubscribing an untracked one returns
\* False, leaves the list alone and starts or stops no worker.
C5_RefusedReturnsFalse ==
    [][RefusedStep => /\ call'.ret = "False"
                      /\ hashes' = hashes
                      /\ UNCHANGED <<workerVars, thread, sup>>]_vars

\* ------------------------------------------------- C6..C10: one worker's run
\* The delays named by the warnings worker w has reported.
Named(w) ==
    LET ws == SelectSeq(sink[w], LAMBDA e : e.ev = "warning")
    IN  [i \in 1..Len(ws) |-> ws[i].d]

Errors(w) == SelectSeq(sink[w], LAMBDA e : e.ev = "error")

\* The sink calls of worker w other than disconnect.
Reported(w) == SelectSeq(sink[w], LAMBDA e : e.ev # "disconnect")

Ended(w) == pc[w] \in {"exit", "done"}

ExpDelays == <<10, 20, 40, 80, 160, 320>>

\* Every outcome since the last 200 (or the start) is a status of the
\* exponential category.
ExpOnly(w) ==
    /\ resp[w] # {}
    /\ \A o \in resp[w] : o.kind = "response" /\ Classify(o.code) = "exponential"

\* Every outcome since the last 200 (or the start) is a socket failure while
\* reading or another exception while connecting.
LinOnly(w) ==
    /\ resp[w] # {}
    /\ \A o \in resp[w] : o.kind \in {"exception", "read"}

\* C6: in a streak of exponential-category failures from delay 0 the waits
\* before the attempts are 0, 10, 20, 40, 80, 160, 320, each retry has one
\* warning naming its delay, and the failure after the 320 s wait brings one
\* error and the end of the worker.
C6_ExponentialStreak ==
    ExpOnly(1) =>
        LET n == Len(Named(1)) IN
        /\ n >= 1 /\ n <= 6
        /\ Named(1) = SubSeq(ExpDelays, 1, n)
        /\ connection_delay[1] = ExpDelays[n]
        /\ Len(waits[1]) \in {n, n + 1}
        /\ waits[1] = SubSeq(<<0>> \o ExpDelays, 1, Len(waits[1]))
        /\ Len(Errors(1)) <= 1
        /\ Reported(1) = SelectSeq(sink[1], LAMBDA e : e.ev = "warning") \o Errors(1)
        /\ Len(Errors(1)) = 1 => (n = 6 /\ Len(waits[1]) = 7 /\ Ended(1))

\* Seven failures in a row: the worker has given up and ended.
C6_Witness ==
    ExpOnly(1) /\ Len(Errors(1)) = 1 /\ Len(Named(1)) = 6 /\ pc[1] = "done"

\* C7: in a streak of linear-category failures from delay 0 the delay grows
\* by 1 per failure, the waits are 1, 2, ..., 16, each retry has one warning,
\* and a failure at delay 16 brings one error and the end of the worker.
C7_LinearStreak ==
    LinOnly(1) =>
        LET n == Len(Named(1))
            from == IF has_connected[1] THEN 1 ELSE 0
        IN
        /\ n >= 1 /\ n <= LinMax
        /\ Named(1) = [i \in 1..n |-> i]
        /\ connection_delay[1] = n
        /\ \A i \in 1..Len(waits[1]) : waits[1][i] = from + i - 1
        /\ Len(waits[1]) \in {n - from, n - from + 1}
        /\ Len(Errors(1)) <= 1
        /\ Len(Errors(1)) = 1 => (n = LinMax /\ Ended(1))

\* Seventeen failures in a row: the worker has given up and ended.
C7_Witness ==
    LinOnly(1) /\ Len(Errors(1)) = 1 /\ Len(Named(1)) = 16 /\ pc[1] = "done"

\* Every response since the start of the worker was a 503.
All503(w) == resp[w] = {Outcome("response", 503)}

\* C8 as stated: five 503 responses in a row to a fresh worker bring five
\* warnings naming 0, 10, 20, 40, 80.
C8_WarningsFromZero ==
    (All503(1) /\ Len(Named(1)) = 5) => Named(1) = <<0, 10, 20, 40, 80>>

\* C8 as amended: they bring five warnings naming 10, 20, 40, 80, 160 (the
\* waits before the five attempts were 0, 10, 20, 40, 80); the worker has not
\* given up and makes its sixth attempt after 160 s; it gives up only on
\* a failure at delay 320.
C8_FiveWarnings ==
    /\ (All503(1) /\ Len(Named(1)) = 5) =>
          /\ Named(1) = <<10, 20, 40, 80, 160>>
          /\ SubSeq(waits[1], 1, 5) = <<0, 10, 20, 40, 80>>
          /\ Len(Errors(1)) = 0
          /\ pc[1] \in {"top", "connect"} \/ ~running
          /\ Len(waits[1]) = 6 => waits[1][6] = 160
    /\ (All503(1) /\ Len(Errors(1)) > 0) =>
          (Len(Named(1)) = 6 /\ connection_delay[1] = ExpMax)

\* The sixth attempt after five 503 responses is under way.
C8_Witness ==
    All503(1) /\ Len(Named(1)) = 5 /\ Len(waits[1]) = 6 /\ pc[1] = "connect"

\* The latest outcome of worker w is a 4xx response other than 420, and the
\* worker is past reading its payload.
AfterClientError(w) ==
    /\ last[w].kind = "response"
    /\ Classify(last[w].code) = "client"
    /\ pc[w] # "payload"

\* C9: after a 4xx other than 420 the worker has reported one error (the
\* payload's message, or a generic one), no warning, and has ended.
C9_ClientErrorIsFatal ==
    AfterClientError(1) =>
        /\ Ended(1)
        /\ Len(Errors(1)) = 1
        /\ Reported(1)[Len(Reported(1))].ev = "error"
        /\ Reported(1)[Len(Reported(1))].msg \in {"message", "Hash not found"}

Disconnects(w) == SelectSeq(sink[w], LAMBDA e : e.ev = "disconnect")

\* Worker w's last sink call is its one disconnect.
DisconnectLast(w) ==
    /\ Len(Disconnects(w)) = 1
    /\ sink[w][Len(sink[w])].ev = "disconnect"

C12_DriverReturns == (stop_requested /\ driver = "loop") ~> (driver = "returned")

\* C12: after stop() the current worker eventually ends its run() and
\* run_forever is not left looping.
C12_StopWindsDown ==
    stop_requested ~> (thread # 0 /\ pc[thread] = "done" /\ driver # "loop")

\* --------------------------------------------------------------------- C13
IsPrefix(a, b) == Len(a) <= Len(b) /\ a = SubSeq(b, 1, Len(a))

\* The payloads of body b hold no carriage return.
NoCR(b) == \A i \in 1..Len(b.payloads) : \A j \in 1..Len(b.payloads[i]) :
              b.payloads[i][j] # CR

\* Every byte of the current response has been received and the buffer holds
\* no complete line.
Drained(w) == wire[w] = <<>> /\ Find(buffer[w]) = 0

\* What holds of the chunks themselves: on a worker's first connection, a
\* chunked body with payloads free of carriage returns and no zero-length
\* chunk delivers its payloads, byte for byte and in order.
C13_PayloadsDelivered ==
    (body[1].n = 1 /\ body[1].chunked /\ NoCR(body[1]) /\ ~body[1].zero) =>
        /\ IsPrefix(frames[1], body[1].payloads)
        /\ (Drained(1) /\ pc[1] \in {"read", "inread"}) => frames[1] = body[1].payloads

\* C13: on a worker's first connection, a chunked body that ends with the
\* zero-length chunk (payloads free of carriage returns, as in the claim's
\* example) delivers the payloads of its non-empty chunks and nothing else.
C13_ChunkedRoundTrip ==
    (body[1].n = 1 /\ body[1].chunked /\ NoCR(body[1]) /\ body[1].zero) =>
        IsPrefix(frames[1], body[1].payloads)

\* --------------------------------------------------------------------- C14
\* A sequence of lines without its empty ones.
NonEmpty(ls) == SelectSeq(ls, LAMBDA l : l # <<>>)

\* A line without its carriage returns.
WithoutCR(l) == SelectSeq(l, LAMBDA c : c # CR)

\* C14 as stated: the frames delivered are the non-empty lines of the body,
\* in order, and all of them once the body has been received.
C14_LinesAsSent ==
    body[1].n = 1 =>
        /\ IsPrefix(frames[1], NonEmpty(body[1].payloads))
        /\ Drained(1) => frames[1] = NonEmpty(body[1].payloads)

\* C14 as amended: the frames delivered are the lines of the body with their
\* carriage returns removed, those left empty by it skipped, in order, one
\* frame per line, whatever the split; no frame is empty or holds a newline or
\* a carriage return; and all of them are delivered once the body has been
\* received.
C14_IdentityDecode ==
    body[1].n = 1 =>
        LET expected == NonEmpty([i \in 1..Len(body[1].payloads) |->
                                     WithoutCR(body[1].payloads[i])])
        IN  /\ IsPrefix(frames[1], expected)
            /\ Drained(1) => (frames[1] = expected /\ buffer[1] = <<>>)
            /\ \A i \in 1..Len(frames[1]) :
                  /\ frames[1][i] # <<>>
                  /\ \A j \in 1..Len(frames[1][i]) : frames[1][i][j] \notin {NL, CR}

\* The body x CR NL x x NL has been received and decoded into x and x x.
C14_Witness ==
    /\ body[1].payloads = << <<"x", CR>>, <<"x", "x">> >>
    /\ Drained(1)
    /\ frames[1] = << <<"x">>, <<"x", "x">> >>

\* --------------------------------------------------------------------- C15
\* The delays named by worker w's warnings of one category since its last 200.
NamedBy(w, category) ==
    LET ws == SelectSeq(sink[w], LAMBDA e : e.ev = "warning" /\ e.msg = category)
    IN  [i \in 1..Len(ws) |-> ws[i].d]

\* No response since the last 200 (or the start) was a 4xx other than 420.
NoClientError(w) ==
    \A o \in resp[w] : ~(o.kind = "response" /\ Classify(o.code) = "client")

\* C15: whatever the interleaving of the two categories of failure since the
\* last 200, the k-th exponential-category retry names the k-th of 10, 20,
\* 40, 80, 160, 320 and the k-th linear-category retry names k, up to 16
\* (stated of the streaks that hold no 4xx response).
C15_IndependentCounters ==
    NoClientError(1) =>
        /\ Len(NamedBy(1, "exponential")) <= Len(ExpDelays)
        /\ NamedBy(1, "exponential") =
              SubSeq(ExpDelays, 1, Len(NamedBy(1, "exponential")))
        /\ Len(NamedBy(1, "linear")) <= LinMax
        /\ NamedBy(1, "linear") = [i \in 1..Len(NamedBy(1, "linear")) |-> i]

\* --------------------------------------------------------------------- C16
\* The frames a response body can hold: the non-empty lines and the payloads,
\* of at most MaxPayload bytes, none of them a carriage return or a length digit.
BodyFrames == SeqsUpTo({"x", NL}, 1, MaxPayload)

\* What holds on a worker's first connection: every frame delivered is a
\* frame a body can hold (bodies without the zero-length chunk).
C16_FirstConnection ==
    (body[1].n = 1 /\ ~body[1].zero) =>
        \A i \in 1..Len(frames[1]) : frames[1][i] \in BodyFrames

\* C16: on every connection of a worker, every frame delivered is one complete
\* frame of one response body, never bytes of two responses joined (bodies
\* without the zero-length chunk).
C16_FramesOfOneConnection ==
    (body[1].n >= 1 /\ ~body[1].zero) =>
        \A i \in 1..Len(frames[1]) : frames[1][i] \in BodyFrames

\* --------------------------------------------------------------------- C19
\* The failures of worker w since its last 200 (or its start): the attempts
\* that are over, and the failure of the stream if there was one.
Failures(w) ==
    Len(waits[w]) - (IF pc[w] \in {"connect", "payload"} THEN 1 ELSE 0)
    + (IF Outcome("read", 0) \in resp[w] THEN 1 ELSE 0)

\* One sink call per failure, the last of them an error exactly when the
\* worker has ended on a failure; nothing is reported after an error and no
\* attempt follows it.
OneReportPerFailure(w) ==
    /\ Len(Named(w)) + Len(Errors(w)) = Failures(w)
    /\ Len(Errors(w)) <= 1
    /\ Len(Errors(w)) = 1 =>
          /\ Ended(w)
          /\ Reported(w)[Len(Reported(w))].ev = "error"

\* What holds of the failures other than a 4xx: one sink call per failure, a
\* warning for each that is retried, one error for the one that ends the worker.
C19_ExceptClientErrors == NoClientError(1) => OneReportPerFailure(1)

\* C19: every failure brings one sink call and one decision: the failures that
\* end the worker (unreachable endpoint, 4xx other than 420, a give-up) one
\* error and no further attempt, the others one warning and another attempt.
C19_OneNotificationPerFailure ==
    /\ OneReportPerFailure(1)
    /\ (last[1].kind = "response" /\ Classify(last[1].code) = "client"
          /\ pc[1] # "payload")
          => (Ended(1) /\ Reported(1)[Len(Reported(1))].ev = "error")
    /\ last[1].kind = "URLError"
          => (Ended(1) /\ Reported(1)[Len(Reported(1))].ev = "error")

\* --------------------------------------------------------------------- C17
\* Worker w's thread has been started and run() has not returned.
Executing(w) == pc[w] \notin {"new", "done"}

\* The workers that execute and have not been told to stop.
Serving == {w \in Workers : Executing(w) /\ ~thread_stop[w]}

C18_StopIsBounded ==
    \A w \in Workers : thread_stop[w] ~> (pc[w] = "done")

\* --------------------------------------------------------------------- C20
\* C20: every restart that has begun eventually returns, the replacement
\* installed as the current worker.
C20_RestartReturns ==
    \A w \in Workers :
        (sup.at = "restart" /\ sup.new = w) ~> (sup.at = "idle" /\ thread = w)

====
